---- MODULE Spec2Model ----
(***************************************************************************)
(* Model of pulizia.py: the cell cleaning function pulisci_testo and the   *)
(* script that loads a ';'-separated file, drops the all-missing rows,     *)
(* cleans the text columns and writes the result.                          *)
(*                                                                         *)
(* A text is a sequence of Unicode code points.  A cell value is a record  *)
(* tagged nan / str / int / float, the kinds pandas produces for the       *)
(* fields of the modelled files.                                           *)
(***************************************************************************)
EXTENDS Integers, Sequences, FiniteSets, TLC

VARIABLES
    arg,      \* pulisci_testo: the value passed in
    testo,    \* pulisci_testo: the local variable testo
    npc,      \* pulisci_testo: position in the function body
    ran,      \* pulisci_testo: the statements executed by the current call
    ret,      \* pulisci_testo: the value returned by the current call
    calls,    \* the completed calls, oldest first, each [arg, ret]
    exists,   \* script: whether percorso_input can be read
    file,     \* script: the input file, [header, lines]
    pc,       \* script: position in the module body
    df,       \* script: the DataFrame, [columns, rows]
    ci,       \* script: position of the for loop in colonne_testo
    out       \* script: the file written at percorso_output

vars == <<arg, testo, npc, ran, ret, calls, exists, file, pc, df, ci, out>>
nvars == <<arg, testo, npc, ran, ret, calls>>
svars == <<exists, file, pc, df, ci, out>>

(***************************************************************************)
(* Bounds                                                                  *)
(***************************************************************************)
MaxLen == 3      \* longest text passed to pulisci_testo
MaxRows == 2     \* most data lines in the input file

(***************************************************************************)
(* Values and texts                                                        *)
(***************************************************************************)
NaN == [t |-> "nan", s |-> <<>>, n |-> 0]
Str(s) == [t |-> "str", s |-> s, n |-> 0]
IntVal(n) == [t |-> "int", s |-> <<>>, n |-> n]
FloatVal(n) == [t |-> "float", s |-> <<>>, n |-> n]    \* the float n.0

\* code points: A z 1 - space ! tab e-acute sharp-s ellipsis en-dash
\* combining-acute
Chars == {65, 122, 49, 45, 32, 33, 9, 233, 223, 8230, 8211, 769}

RECURSIVE SeqsUpTo(_, _)
SeqsUpTo(S, n) ==
    IF n = 0 THEN {<<>>}
    ELSE LET shorter == SeqsUpTo(S, n - 1)
         IN  shorter \cup {Append(s, c) : s \in {q \in shorter : Len(q) = n - 1}, c \in S}

Texts == SeqsUpTo(Chars, MaxLen)

Args == {NaN, IntVal(1), FloatVal(1)} \cup {Str(s) : s \in Texts}

(***************************************************************************)
(* pulisci_testo, statement by statement                                   *)
(***************************************************************************)
pd_isna_always_false(x) == FALSE

pd_isna(x) == x.t = "nan"

RECURSIVE Digits(_)
Digits(n) == IF n < 10 THEN <<48 + n>> ELSE Digits(n \div 10) \o <<48 + (n % 10)>>

\* str(testo): a str is itself, nan is "nan", 1 is "1", 1.0 is "1.0"
str(x) ==
    CASE x.t = "str" -> x.s
      [] x.t = "nan" -> <<110, 97, 110>>
      [] x.t = "int" -> Digits(x.n)
      [] x.t = "float" -> Digits(x.n) \o <<46, 48>>

\* unidecode's table for one code point: ASCII is kept, the rest is
\* replaced by its ASCII approximation, which may be empty or several
\* characters long
unidecode_char(c) ==
    CASE c < 128 -> <<c>>
      [] c = 233 -> <<101>>                 \* e-acute -> e
      [] c = 223 -> <<115, 115>>            \* sharp s -> ss
      [] c = 8230 -> <<46, 46, 46>>         \* ellipsis -> ...
      [] c = 8211 -> <<45>>                 \* en dash -> -
      [] c = 160 -> <<32>>                  \* no-break space -> space
      [] OTHER -> <<>>                      \* combining marks -> nothing

RECURSIVE unidecode(_)
unidecode(s) ==
    IF s = <<>> THEN <<>> ELSE unidecode_char(Head(s)) \o unidecode(Tail(s))

\* the complement of the class [^A-Za-z0-9\- ]
Allowed(c) == c \in (65..90) \cup (97..122) \cup (48..57) \cup {45, 32}

AllowedOrDot(c) == Allowed(c) \/ c = 46

\* re.sub(r'[^A-Za-z0-9\- ]', ' ', testo)
sub_filter_keeps_dot(s) == [i \in 1..Len(s) |-> IF AllowedOrDot(s[i]) THEN s[i] ELSE 32]

sub_filter_deletes(s) == SelectSeq(s, Allowed)

sub_filter(s) == [i \in 1..Len(s) |-> IF Allowed(s[i]) THEN s[i] ELSE 32]

\* the characters up to U+00A0 that \s matches in a str pattern, which
\* are also the ones str.strip() removes; unidecode leaves ASCII only
IsSpace(c) == c \in {9, 10, 11, 12, 13, 28, 29, 30, 31, 32, 133, 160}

\* re.sub(r'  ', ' ', testo): every non-overlapping pair, left to right
RECURSIVE sub_collapse_pairs(_)
sub_collapse_pairs(s) ==
    IF Len(s) < 2 THEN s
    ELSE IF s[1] = 32 /\ s[2] = 32
         THEN <<32>> \o sub_collapse_pairs(SubSeq(s, 3, Len(s)))
         ELSE <<s[1]>> \o sub_collapse_pairs(Tail(s))

\* re.sub(r'\s+', ' ', testo): every maximal run of whitespace becomes one
\* space
RECURSIVE sub_collapse(_)
sub_collapse(s) ==
    IF s = <<>> THEN <<>>
    ELSE IF IsSpace(Head(s))
         THEN IF Len(s) >= 2 /\ IsSpace(s[2])
              THEN sub_collapse(Tail(s))
              ELSE <<32>> \o sub_collapse(Tail(s))
         ELSE <<Head(s)>> \o sub_collapse(Tail(s))

RECURSIVE lstrip(_)
lstrip(s) == IF s # <<>> /\ IsSpace(Head(s)) THEN lstrip(Tail(s)) ELSE s

RECURSIVE rstrip(_)
rstrip(s) ==
    IF s # <<>> /\ IsSpace(s[Len(s)]) THEN rstrip(SubSeq(s, 1, Len(s) - 1)) ELSE s

strip_nothing(s) == s

\* testo.strip()
strip(s) == rstrip(lstrip(s))

\* the function as a whole, as the script's apply() uses it
pulisci_testo(x) ==
    IF pd_isna(x) THEN Str(<<>>)
    ELSE Str(strip(sub_collapse(sub_filter(unidecode(str(x))))))

\* def pulisci_testo(testo): a call with one of the modelled values
Call ==
    /\ npc = "idle"
    /\ calls = <<>>
    /\ \E x \in Args : arg' = x /\ testo' = x
    /\ npc' = "isna"
    /\ ran' = {}
    /\ UNCHANGED <<ret, calls, svars>>

\* a second call, on the value the first one returned
CallAgain ==
    /\ npc = "idle"
    /\ Len(calls) = 1
    /\ arg' = calls[1].ret /\ testo' = calls[1].ret
    /\ npc' = "isna"
    /\ ran' = {}
    /\ UNCHANGED <<ret, calls, svars>>

\* if pd.isna(testo): return ""
ReturnEmpty ==
    /\ npc = "isna"
    /\ pd_isna(testo)
    /\ ret' = Str(<<>>)
    /\ npc' = "returned"
    /\ ran' = ran \cup {"isna"}
    /\ UNCHANGED <<arg, testo, calls, svars>>

\* testo = str(testo)
Coerce ==
    /\ npc = "isna"
    /\ ~pd_isna(testo)
    /\ testo' = Str(str(testo))
    /\ npc' = "unidecode"
    /\ ran' = ran \cup {"isna", "str"}
    /\ UNCHANGED <<arg, ret, calls, svars>>

\* testo = unidecode(testo)
Transliterate ==
    /\ npc = "unidecode"
    /\ testo' = Str(unidecode(testo.s))
    /\ npc' = "filter"
    /\ ran' = ran \cup {"unidecode"}
    /\ UNCHANGED <<arg, ret, calls, svars>>

\* testo = re.sub(r'[^A-Za-z0-9\- ]', ' ', testo)
Filter ==
    /\ npc = "filter"
    /\ testo' = Str(sub_filter(testo.s))
    /\ npc' = "collapse"
    /\ ran' = ran \cup {"filter"}
    /\ UNCHANGED <<arg, ret, calls, svars>>

\* testo = re.sub(r'\s+', ' ', testo).strip()
CollapseStrip ==
    /\ npc = "collapse"
    /\ testo' = Str(strip(sub_collapse(testo.s)))
    /\ npc' = "return"
    /\ ran' = ran \cup {"collapse", "strip"}
    /\ UNCHANGED <<arg, ret, calls, svars>>

\* return testo
Return ==
    /\ npc = "return"
    /\ ret' = testo
    /\ npc' = "returned"
    /\ UNCHANGED <<arg, testo, ran, calls, svars>>

\* the caller takes the returned value
Returned ==
    /\ npc = "returned"
    /\ calls' = Append(calls, [arg |-> arg, ret |-> ret])
    /\ npc' = "idle"
    /\ UNCHANGED <<arg, testo, ran, ret, svars>>

(***************************************************************************)
(* The script: read_csv, dropna, the loop over colonne_testo, to_csv       *)
(***************************************************************************)
sep == 59    \* ';'

colonne_testo_and_Prezzo ==
    <<"Nome", "Nazione", "Citta", "Indirizzo", "Delivery", "Online",
      "Tipo_di_cucina", "Prezzo">>

colonne_testo ==
    <<"Nome", "Nazione", "Citta", "Indirizzo", "Delivery", "Online",
      "Tipo_di_cucina">>

\* the fields of one line: the texts between the separators
RECURSIVE csv_split(_, _)
csv_split(line, cur) ==
    IF line = <<>> THEN <<cur>>
    ELSE IF Head(line) = sep THEN <<cur>> \o csv_split(Tail(line), <<>>)
    ELSE csv_split(Tail(line), Append(cur, Head(line)))

\* one line: the fields with a separator between them
RECURSIVE csv_join(_)
csv_join(fields) ==
    IF fields = <<>> THEN <<>>
    ELSE IF Len(fields) = 1 THEN fields[1]
    ELSE fields[1] \o <<sep>> \o csv_join(Tail(fields))

\* read_csv's default na_values that the modelled alphabet can spell:
\* "", "NA", "nan"
na_values == {<<>>, <<78, 65>>, <<110, 97, 110>>}

IsDigits(t) == t # <<>> /\ \A i \in 1..Len(t) : t[i] \in 48..57

RECURSIVE ParseInt(_)
ParseInt(t) ==
    IF t = <<>> THEN 0 ELSE 10 * ParseInt(SubSeq(t, 1, Len(t) - 1)) + (t[Len(t)] - 48)

Max(a, b) == IF a >= b THEN a ELSE b

Pad(fields, width) ==
    [j \in 1..width |-> IF j <= Len(fields) THEN fields[j] ELSE <<>>]

\* pd.read_csv(percorso_input, sep=';', on_bad_lines='skip'): blank lines
\* are skipped; the first data line may be longer than the header, its
\* surplus leading fields then being the index; a later line with more
\* fields than that is a bad line and is skipped, one with fewer is
\* filled with missing values; a column whose present fields are all
\* digits is numeric (float as soon as one field is missing), any other
\* column holds strings
read_csv(f) ==
    LET ncols == Len(f.header)
        numbered == [i \in 1..Len(f.lines) |->
                        [line |-> i, fields |-> csv_split(f.lines[i], <<>>)]]
        NotBlank(r) == f.lines[r.line] # <<>>
        toks == SelectSeq(numbered, NotBlank)
        width == IF toks = <<>> THEN ncols ELSE Max(ncols, Len(toks[1].fields))
        NotBad(r) == Len(r.fields) <= width
        good == SelectSeq(toks, NotBad)
        lead == width - ncols
        padded == [k \in 1..Len(good) |-> Pad(good[k].fields, width)]
        text(k, j) == padded[k][lead + j]
        isna(t) == t \in na_values
        numeric(j) == \A k \in 1..Len(good) : isna(text(k, j)) \/ IsDigits(text(k, j))
        hasna(j) == \E k \in 1..Len(good) : isna(text(k, j))
        cell(k, j) ==
            IF isna(text(k, j)) THEN NaN
            ELSE IF ~numeric(j) THEN Str(text(k, j))
            ELSE IF hasna(j) THEN FloatVal(ParseInt(text(k, j)))
            ELSE IntVal(ParseInt(text(k, j)))
        label(k) ==
            IF lead = 0 THEN IntVal(k - 1)
            ELSE IF isna(good[k].fields[1]) THEN NaN
            ELSE Str(good[k].fields[1])
    IN  [columns |-> f.header,
         rows |-> [k \in 1..Len(good) |->
                      [line |-> good[k].line,
                       index |-> label(k),
                       cells |-> [j \in 1..ncols |-> cell(k, j)]]]]

AllNa(r) == \A j \in 1..Len(r.cells) : r.cells[j].t = "nan"

AnyNa(r) == \E j \in 1..Len(r.cells) : r.cells[j].t = "nan"

NotAllNa(r) == ~AllNa(r)

NotAnyNa(r) == ~AnyNa(r)

\* df.dropna(how='any')
dropna_any(d) == [d EXCEPT !.rows = SelectSeq(d.rows, NotAnyNa)]

\* df.dropna(how='all', inplace=True)
dropna(d) == [d EXCEPT !.rows = SelectSeq(d.rows, NotAllNa)]

always_in_columns(col, d) == TRUE

\* col in df.columns
col_in_columns(col, d) == \E j \in 1..Len(d.columns) : d.columns[j] = col

ColumnOf(col, d) == CHOOSE j \in 1..Len(d.columns) : d.columns[j] = col

\* df[col] = df[col].apply(pulisci_testo).reset_index(drop=True): the new
\* values are numbered from 0 and each row takes the one numbered as its
\* index label, or a missing value when there is none
apply_renumbered(d, j) ==
    LET new(r) ==
            IF r.index.t = "int" /\ r.index.n < Len(d.rows)
            THEN pulisci_testo(d.rows[r.index.n + 1].cells[j])
            ELSE NaN
    IN  [d EXCEPT !.rows =
            [k \in 1..Len(d.rows) |-> [d.rows[k] EXCEPT !.cells[j] = new(d.rows[k])]]]

\* df[col] = df[col].apply(pulisci_testo): every cell of column j is
\* replaced by its cleaned value, row by row
apply_column(d, j) ==
    [d EXCEPT !.rows =
        [k \in 1..Len(d.rows) |->
            [d.rows[k] EXCEPT !.cells[j] = pulisci_testo(d.rows[k].cells[j])]]]

to_csv_field_na_rep_NA(v) ==
    CASE v.t = "nan" -> <<78, 65>>
      [] v.t = "str" -> v.s
      [] v.t = "int" -> Digits(v.n)
      [] v.t = "float" -> Digits(v.n) \o <<46, 48>>

\* one field as to_csv writes it with na_rep=''
to_csv_field(v) ==
    CASE v.t = "nan" -> <<>>
      [] v.t = "str" -> v.s
      [] v.t = "int" -> Digits(v.n)
      [] v.t = "float" -> Digits(v.n) \o <<46, 48>>

\* df.to_csv(percorso_output, index=False, sep=';', na_rep=''): the header
\* and one line per row, without the index
to_csv(d) ==
    [header |-> d.columns,
     lines |-> [k \in 1..Len(d.rows) |->
                   csv_join([j \in 1..Len(d.rows[k].cells) |->
                                to_csv_field(d.rows[k].cells[j])])]]

\* the fields of the modelled files: "", "NA", "!", "1", e-acute "!A"
RawFields == {<<>>, <<78, 65>>, <<33>>, <<49>>, <<233, 33, 65>>}

\* the headers of the modelled files
Headers ==
    {<<"Nome", "Prezzo">>, <<"Prezzo", "Citta">>, <<"Nome", "Tipo_di_cucina">>}

\* the lines of the modelled files: two fields, as many as the header
\* has; one field (the blank line and "!"); three fields
RawLines ==
    {csv_join(fs) : fs \in [1..2 -> RawFields]}
        \cup {<<>>, <<33>>}
        \cup {csv_join(<<f, <<33>>, <<>>>>) : f \in {<<>>, <<33>>}}

Files ==
    {[header |-> h, lines |-> ls] : h \in Headers, ls \in SeqsUpTo(RawLines, MaxRows)}

NoCall ==
    /\ arg = NaN
    /\ testo = NaN
    /\ npc = "off"
    /\ ran = {}
    /\ ret = NaN
    /\ calls = <<>>

Init ==
    /\ NoCall
    /\ \/ exists = TRUE /\ file \in Files
       \/ exists = FALSE /\ file = [header |-> <<>>, lines |-> <<>>]
    /\ pc = "read_csv"
    /\ df = [columns |-> <<>>, rows |-> <<>>]
    /\ ci = 1
    /\ out = [header |-> <<>>, lines |-> <<>>]

\* df = pd.read_csv(...)
Load ==
    /\ pc = "read_csv"
    /\ exists
    /\ df' = read_csv(file)
    /\ pc' = "dropna"
    /\ UNCHANGED <<nvars, exists, file, ci, out>>

\* pd.read_csv raises FileNotFoundError and the script stops
LoadFails ==
    /\ pc = "read_csv"
    /\ ~exists
    /\ pc' = "error"
    /\ UNCHANGED <<nvars, exists, file, df, ci, out>>

\* df.dropna(how='all', inplace=True)
DropEmptyRows ==
    /\ pc = "dropna"
    /\ df' = dropna(df)
    /\ pc' = "for"
    /\ UNCHANGED <<nvars, exists, file, ci, out>>

\* one iteration of the loop on a column the table has; df[col] of a
\* column it does not have raises KeyError
CleanColumn ==
    /\ pc = "for"
    /\ ci <= Len(colonne_testo)
    /\ col_in_columns(colonne_testo[ci], df)
    /\ IF \E j \in 1..Len(df.columns) : df.columns[j] = colonne_testo[ci]
       THEN /\ df' = apply_column(df, ColumnOf(colonne_testo[ci], df))
            /\ ci' = ci + 1
            /\ pc' = pc
       ELSE /\ pc' = "error"
            /\ UNCHANGED <<df, ci>>
    /\ UNCHANGED <<nvars, exists, file, out>>

\* one iteration of the loop on a column the table does not have
SkipColumn ==
    /\ pc = "for"
    /\ ci <= Len(colonne_testo)
    /\ ~col_in_columns(colonne_testo[ci], df)
    /\ ci' = ci + 1
    /\ UNCHANGED <<nvars, exists, file, pc, df, out>>

\* the loop is over: df.to_csv(...), then the closing print
Save ==
    /\ pc = "for"
    /\ ci > Len(colonne_testo)
    /\ out' = to_csv(df)
    /\ pc' = "done"
    /\ UNCHANGED <<nvars, exists, file, df, ci>>

Next ==
    \/ Load
    \/ LoadFails
    \/ DropEmptyRows
    \/ CleanColumn
    \/ SkipColumn
    \/ Save

Spec == Init /\ [][Next]_vars

NoScript ==
    /\ exists = FALSE
    /\ file = [header |-> <<>>, lines |-> <<>>]
    /\ pc = "off"
    /\ df = [columns |-> <<>>, rows |-> <<>>]
    /\ ci = 0
    /\ out = [header |-> <<>>, lines |-> <<>>]

InitNorm ==
    /\ arg = NaN
    /\ testo = NaN
    /\ npc = "idle"
    /\ ran = {}
    /\ ret = NaN
    /\ calls = <<>>
    /\ NoScript

NextNorm ==
    \/ Call
    \/ CallAgain
    \/ ReturnEmpty
    \/ Coerce
    \/ Transliterate
    \/ Filter
    \/ CollapseStrip
    \/ Return
    \/ Returned

SpecNorm == InitNorm /\ [][NextNorm]_vars

(***************************************************************************)
(* Properties of pulisci_testo (checked under SpecNorm)                    *)
(***************************************************************************)
\* C1: cleaning is idempotent: a second call, made on the value the first
\* call returned, returns that same value.
C1_Idempotent == Len(calls) = 2 => calls[2].ret = calls[1].ret

\* "A" ellipsis "z" was cleaned to "A z", and cleaning "A z" again is done
C1_Witness ==
    /\ Len(calls) = 2
    /\ calls[1].arg = Str(<<65, 8230, 122>>)
    /\ calls[2].arg = Str(<<65, 32, 122>>)

\* C2: every character of a returned value is an ASCII letter, a digit, a
\* space or a hyphen, whatever the argument was.
C2_AlphabetClosure ==
    npc = "returned" =>
        /\ ret.t = "str"
        /\ \A i \in 1..Len(ret.s) :
               ret.s[i] \in (65..90) \cup (97..122) \cup (48..57) \cup {32, 45}

\* an argument holding characters outside the alphabet, before and after
\* transliteration, gave a non-empty result
C2_Witness ==
    /\ npc = "returned"
    /\ arg = Str(<<233, 8230, 33>>)
    /\ ret = Str(<<101>>)

\* C3: a returned value has no two consecutive spaces and neither starts
\* nor ends with a space.
C3_WhitespaceShape ==
    npc = "returned" =>
        /\ \A i \in 1..(Len(ret.s) - 1) : ~(ret.s[i] = 32 /\ ret.s[i + 1] = 32)
        /\ ret.s # <<>> => ret.s[1] # 32 /\ ret.s[Len(ret.s)] # 32

\* arguments with a leading space, a trailing tab, and an inner run of
\* three replaced characters
C3_Witness ==
    /\ npc = "returned"
    /\ \/ arg = Str(<<32, 65, 9>>) /\ ret = Str(<<65>>)
       \/ arg = Str(<<65, 8230, 122>>) /\ ret = Str(<<65, 32, 122>>)

\* C4: a call with a missing value returns "" having executed the isna
\* test only; a call with "" returns "".
C4_MissingGivesEmpty ==
    npc = "returned" =>
        /\ arg = NaN => ret = Str(<<>>) /\ ran = {"isna"}
        /\ arg = Str(<<>>) => ret = Str(<<>>)

C4_Witness == npc = "returned" /\ arg = NaN /\ ret = Str(<<>>)

\* the characters that make up a word of the reference operator
WordChar(c) == c \in (65..90) \cup (97..122) \cup (48..57) \cup {45}

\* the maximal runs of word characters of s, in order; cur is the run
\* being read
RECURSIVE Words(_, _)
Words(s, cur) ==
    LET done == IF cur = <<>> THEN <<>> ELSE <<cur>>
    IN  IF s = <<>> THEN done
        ELSE IF WordChar(Head(s)) THEN Words(Tail(s), Append(cur, Head(s)))
        ELSE done \o Words(Tail(s), <<>>)

RECURSIVE JoinWithSpace(_)
JoinWithSpace(ws) ==
    IF ws = <<>> THEN <<>>
    ELSE IF Len(ws) = 1 THEN ws[1]
    ELSE ws[1] \o <<32>> \o JoinWithSpace(Tail(ws))

\* C9: for a string argument x the returned value is the maximal runs of
\* letters, digits and hyphens of unidecode(x), in order, joined by one
\* space.
C9_SplitAndJoin ==
    (npc = "returned" /\ arg.t = "str") =>
        ret = Str(JoinWithSpace(Words(unidecode(arg.s), <<>>)))

\* "A!z" gave "A z": two runs, one separator
C9_Witness ==
    /\ npc = "returned"
    /\ arg = Str(<<65, 33, 122>>)
    /\ ret = Str(<<65, 32, 122>>)

(***************************************************************************)
(* Properties of the script (checked under Spec)                           *)
(***************************************************************************)
\* the names the claims list as text columns
TextNames ==
    {"Nome", "Nazione", "Citta", "Indirizzo", "Delivery", "Online", "Tipo_di_cucina"}

\* the table as parsed from the input file, and its rows that have at
\* least one field that is not missing
Loaded == read_csv(file).rows

HasValue(r) == \E j \in 1..Len(r.cells) : r.cells[j] # NaN

Kept == SelectSeq(Loaded, HasValue)

\* what the script is to make of cell j of a kept row
Expected(r, j) ==
    IF file.header[j] \in TextNames THEN pulisci_testo(r.cells[j]) ELSE r.cells[j]

\* C5: after the row filtering, and when the output is written, a parsed
\* row is absent from the table exactly when all its fields are missing,
\* and the output has one line per row that is present.
C5_RowFiltering ==
    (pc = "done" \/ (pc = "for" /\ ci = 1)) =>
        LET L == Loaded
        IN  /\ \A k \in 1..Len(L) :
                   (\E m \in 1..Len(df.rows) : df.rows[m].line = L[k].line)
                       <=> HasValue(L[k])
            /\ pc = "done" =>
                   Len(out.lines) = Cardinality({k \in 1..Len(L) : HasValue(L[k])})

\* a parsed row with all fields missing was dropped and a row whose only
\* value is in a column that is not a text column was written
C5_Witness ==
    /\ pc = "done"
    /\ \E k \in 1..Len(Loaded) : ~HasValue(Loaded[k])
    /\ \E k \in 1..Len(Loaded) :
           /\ \E m \in 1..Len(df.rows) : df.rows[m].line = Loaded[k].line
           /\ \E j \in 1..Len(file.header) :
                  /\ file.header[j] \notin TextNames
                  /\ \A i \in 1..Len(file.header) : (Loaded[k].cells[i] # NaN) <=> (i = j)

\* C6: after the loop every cell of a column whose name is not in the text
\* column list has the value it had after loading and row filtering.
C6_ColumnScoping ==
    pc = "done" =>
        LET K == Kept
        IN  /\ Len(df.rows) = Len(K)
            /\ \A k \in 1..Len(df.rows) : \A j \in 1..Len(df.columns) :
                   df.columns[j] \notin TextNames => df.rows[k].cells[j] = K[k].cells[j]

\* the loop is over, a text column was rewritten, and the other column
\* still holds "!" in one row and a missing value in another
C6_Witness ==
    /\ pc = "done"
    /\ \E j \in 1..Len(df.columns) :
           /\ df.columns[j] \notin TextNames
           /\ \E k \in 1..Len(df.rows) : df.rows[k].cells[j] = Str(<<33>>)
           /\ \E k \in 1..Len(df.rows) : df.rows[k].cells[j] = NaN
    /\ \E j \in 1..Len(df.columns) : \E k \in 1..Len(df.rows) :
           df.rows[k].cells[j] # Kept[k].cells[j]

\* C7: a listed name the header lacks is skipped without an error: the
\* script does not stop, the columns of the table and of the output are
\* those of the header, in its order, and after the loop the listed
\* columns that are present hold cleaned values.
C7_AbsentColumnSkipped ==
    (exists /\ \E n \in TextNames : \A j \in 1..Len(file.header) : file.header[j] # n) =>
        /\ pc # "error"
        /\ pc \in {"dropna", "for", "done"} => df.columns = file.header
        /\ pc = "done" => out.header = file.header
        /\ pc = "done" =>
               LET K == Kept
               IN  /\ Len(df.rows) = Len(K)
                   /\ \A k \in 1..Len(df.rows) : \A j \in 1..Len(df.columns) :
                          df.columns[j] \in TextNames =>
                              df.rows[k].cells[j] = pulisci_testo(K[k].cells[j])

\* the header has Citta but not Nome; the loop skipped Nome and cleaned
\* Citta, whose cell was changed
C7_Witness ==
    /\ pc = "done"
    /\ file.header = <<"Prezzo", "Citta">>
    /\ out.header = <<"Prezzo", "Citta">>
    /\ \E k \in 1..Len(df.rows) :
           Kept[k].cells[2] = Str(<<233, 33, 65>>) /\ df.rows[k].cells[2] = Str(<<101, 32, 65>>)

\* C8: the output has one line per kept row, in the order of the input,
\* and line k holds the fields of the k-th kept row (cleaned in the text
\* columns).
C8_RowOrderAndCount ==
    pc = "done" =>
        LET K == Kept
        IN  /\ Len(out.lines) = Len(K)
            /\ \A k \in 1..Len(K) :
                   out.lines[k] =
                       csv_join([j \in 1..Len(file.header) |-> to_csv_field(Expected(K[k], j))])

\* a row was dropped and the row after it was written, with a cleaned
\* field; or two different rows were written
C8_Witness ==
    /\ pc = "done"
    /\ \/ /\ Len(Loaded) = 2 /\ ~HasValue(Loaded[1])
          /\ \E j \in 1..Len(file.header) : Loaded[2].cells[j] = Str(<<233, 33, 65>>)
          /\ Len(out.lines) = 1
       \/ /\ Len(out.lines) = 2 /\ out.lines[1] # out.lines[2]

\* a kept row whose present fields all lie in text columns and all clean
\* to ""
CleansToNothing(r) ==
    \A j \in 1..Len(r.cells) :
        r.cells[j] # NaN =>
            file.header[j] \in TextNames /\ pulisci_testo(r.cells[j]) = Str(<<>>)

\* C10: rows are filtered before the cleaning only: a kept row whose
\* present fields all lie in text columns and clean to "" is still in the
\* table after the loop and is written as a line of empty fields.
C10_EmptyRowsAreWritten ==
    pc = "done" =>
        LET K == Kept
        IN  \A k \in 1..Len(K) :
                CleansToNothing(K[k]) =>
                    /\ k <= Len(df.rows) /\ df.rows[k].line = K[k].line
                    /\ k <= Len(out.lines)
                    /\ \A f \in 1..Len(csv_split(out.lines[k], <<>>)) :
                           csv_split(out.lines[k], <<>>)[f] = <<>>

\* "!" alone in Nome: the row was kept and written as ";"
C10_Witness ==
    /\ pc = "done"
    /\ file.header[1] = "Nome"
    /\ \E k \in 1..Len(Kept) :
           /\ Kept[k].cells = <<Str(<<33>>), NaN>>
           /\ out.lines[k] = <<sep>>

====
